---- MODULE Spec2Model ----
(***************************************************************************)
(* Aircraft kinematics and radar-return model of the ATC radar simulator.  *)
(*                                                                         *)
(* The program computes in floating point; the model computes in fixed     *)
(* point, one integer unit being                                           *)
(*   speed      0.01 knot    (velocity, base_accel, cruise/max speed)      *)
(*   factor     0.001        (thrust, altitude and drag factors)           *)
(*   altitude   1 foot       (mode_c, assigned_altitude)                   *)
(*   bearing    1 degree     (bearing_deg, assigned_bearing_deg)           *)
(*   rate       1 per minute (climb_rate, descent_rate, turn_rate; one     *)
(*              tick is 0.05/60 = 1/1200 minute)                           *)
(*   angle      pi/720 rad   (the sweep and aircraft angles of radar.py)   *)
(*   distance   1/3600 mile  (aircraft.py distance)                        *)
(*   opacity    0.1/60       (the third field of a radar return)           *)
(* Every division rounds down where the program rounds to nearest double.  *)
(***************************************************************************)
EXTENDS Integers, Sequences, FiniteSets, TLC

VARIABLES
    aircraft_type,          \* Aircraft.aircraft_type: the shared profile
    velocity,               \* Aircraft.velocity
    mode_c,                 \* Aircraft.mode_c: altitude
    bearing_deg,            \* Aircraft.bearing_deg
    assigned_speed,         \* Aircraft.assigned_speed
    assigned_altitude,      \* Aircraft.assigned_altitude
    assigned_bearing_deg,   \* Aircraft.assigned_bearing_deg
    ads_b,                  \* Aircraft.ads_b: the position, as the distance flown
    mode_a,                 \* Aircraft.mode_a: the squawk, a string of digits
    qt_angle,               \* RadarWindow.angle (ATC.py): the sweep angle
    qt_ticks,               \* history: the number of timerEvent calls so far
    canvas,                 \* RadarCanvas: what the last draw() showed
    aircraft_list,          \* AircraftList.aircraft_list (aircraft.py)
    radar_sweep_angle,      \* RadarDisplay.radar_sweep.angle
    radar_returns,          \* RadarDisplay.radar_return_manager.radar_returns
    frames,                 \* history: the number of on_draw calls so far
    ticks,                  \* history: the number of RadarDisplay.update calls
    calls                   \* history: RadarSweep.update and
                            \* RadarReturnManager.update calls so far

aircraft_vars == <<aircraft_type, velocity, mode_c, bearing_deg,
                   assigned_speed, assigned_altitude, assigned_bearing_deg,
                   ads_b, mode_a>>

qt_vars == <<qt_angle, qt_ticks, canvas>>

radar_vars == <<aircraft_list, radar_sweep_angle, radar_returns, frames,
                ticks, calls>>

vars == <<aircraft_vars, qt_vars, radar_vars>>

Max(a, b) == IF a >= b THEN a ELSE b
Min(a, b) == IF a <= b THEN a ELSE b
Abs(a) == IF a < 0 THEN -a ELSE a

(***************************************************************************)
(* AircraftType: the performance profiles.  AircraftType.__init__ stores   *)
(* its arguments unchecked, so a profile is any record of these fields.    *)
(***************************************************************************)
\* cruise 110 kt, max 122 kt, base_accel 1.5 kt: the light single of the
\* performance tables; climbs 5000 ft and turns 3 degrees per tick.
LightType ==
    [name |-> "light", base_accel |-> 150, cruise_speed |-> 11000,
     max_speed |-> 12200, climb_rate |-> 6000000, descent_rate |-> 6000000,
     turn_rate |-> 3600]

\* base_accel 10.0 kt, as large as the f16's, so that get_deceleration reaches
\* its cap; climbs 5000 ft and turns 7 degrees per tick.
FastType ==
    [name |-> "fast", base_accel |-> 1000, cruise_speed |-> 8000,
     max_speed |-> 9000, climb_rate |-> 6000000, descent_rate |-> 6000000,
     turn_rate |-> 8400]

\* climbs 60 ft, descends 70 ft and turns 3 degrees per tick.
SlowType ==
    [name |-> "slow", base_accel |-> 200, cruise_speed |-> 4000,
     max_speed |-> 4500, climb_rate |-> 72000, descent_rate |-> 84000,
     turn_rate |-> 3600]

\* climbs 10 ft, descends 20 ft and turns 1 degree per tick: slower than
\* the 50 ft snap band of update_altitude.
HeavyType ==
    [name |-> "heavy", base_accel |-> 200, cruise_speed |-> 8000,
     max_speed |-> 9000, climb_rate |-> 12000, descent_rate |-> 24000,
     turn_rate |-> 1200]

\* turns 3 1/24 degrees per tick: not a whole number of degrees, so the
\* program's sums of it are rounded.
AirlinerType ==
    [name |-> "airliner", base_accel |-> 200, cruise_speed |-> 8000,
     max_speed |-> 9000, climb_rate |-> 72000, descent_rate |-> 84000,
     turn_rate |-> 3650]

\* Aircraft.tick_duration_minutes = 0.05 / 60 = 1 / TicksPerMinute
TicksPerMinute == 1200

(***************************************************************************)
(* AircraftType.get_acceleration / get_deceleration                        *)
(***************************************************************************)
\* velocity / cruise_speed
SpeedRatio(type, v) == (1000 * v) \div type.cruise_speed

\* the thrust factor with min in place of max
ThrustFactor_min(type, v) == Min(200, 1000 - SpeedRatio(type, v))

\* thrust_factor = max(0.2, 1 - (velocity / cruise_speed))
ThrustFactor(type, v) == Max(200, 1000 - SpeedRatio(type, v))

\* the altitude factor with "<=" in place of "<"
AltitudeFactor_inclusive(altitude) ==
    IF altitude <= 10000 THEN 1000 ELSE IF altitude <= 20000 THEN 800 ELSE 600

\* altitude_factor = 1.0 if altitude < 10000 else 0.8 if altitude < 20000 else 0.6
AltitudeFactor(altitude) ==
    IF altitude < 10000 THEN 1000 ELSE IF altitude < 20000 THEN 800 ELSE 600

\* drag_factor = 1 / (1 + (velocity / cruise_speed) ** 2)
DragFactor(type, v) ==
    1000000 \div (1000 + (SpeedRatio(type, v) * SpeedRatio(type, v)) \div 1000)

\* base_accel * thrust_factor * altitude_factor * drag_factor, left to right
get_acceleration(type, altitude, v) ==
    (((((type.base_accel * ThrustFactor(type, v)) \div 1000)
        * AltitudeFactor(altitude)) \div 1000)
        * DragFactor(type, v)) \div 1000

\* the 5.0 knot cap of get_deceleration
DecelCap == 500

\* min(accel * 1.5, 5.0)
get_deceleration(type, altitude, v) ==
    Min((get_acceleration(type, altitude, v) * 3) \div 2, DecelCap)

(***************************************************************************)
(* Aircraft.update_speed / update_altitude / update_bearing: the new value *)
(* of the one field each of them assigns.                                  *)
(***************************************************************************)
\* update_speed with the clamp to max_speed left out
update_speed_unclamped(type, v, altitude, target_speed) ==
    IF v < target_speed
    THEN v + get_acceleration(type, altitude, v)
    ELSE IF v > target_speed
         THEN Max(v - get_deceleration(type, altitude, v), 0)
         ELSE v

update_speed(type, v, altitude, target_speed) ==
    IF v < target_speed
    THEN Min(v + get_acceleration(type, altitude, v), type.max_speed)
    ELSE IF v > target_speed
         THEN Max(v - get_deceleration(type, altitude, v), 0)
         ELSE v

\* "Close enough, stop climbing/descending": abs(delta) < 50
AltitudeSnap == 50

\* update_altitude without "assigned_altitude = max(0, assigned_altitude)"
update_altitude_no_floor(type, current_altitude, assigned) ==
    LET delta == assigned - current_altitude
        climb == type.climb_rate \div TicksPerMinute
        descent == type.descent_rate \div TicksPerMinute
    IN  IF Abs(delta) < AltitudeSnap
        THEN assigned
        ELSE IF delta > 0
             THEN Min(current_altitude + climb, assigned)
             ELSE Max(current_altitude - descent, assigned)

\* update_altitude without the "close enough" branch
update_altitude_no_snap(type, current_altitude, assigned) ==
    LET target == Max(0, assigned)
        delta == target - current_altitude
        climb == type.climb_rate \div TicksPerMinute
        descent == type.descent_rate \div TicksPerMinute
    IN  IF delta > 0
        THEN Min(current_altitude + climb, target)
        ELSE Max(current_altitude - descent, target)

\* update_altitude without the min / max against the target
update_altitude_overshoot(type, current_altitude, assigned) ==
    LET target == Max(0, assigned)
        delta == target - current_altitude
        climb == type.climb_rate \div TicksPerMinute
        descent == type.descent_rate \div TicksPerMinute
    IN  IF Abs(delta) < AltitudeSnap
        THEN target
        ELSE IF delta > 0
             THEN current_altitude + climb
             ELSE current_altitude - descent

update_altitude(type, current_altitude, assigned) ==
    LET target == Max(0, assigned)
        delta == target - current_altitude
        climb == type.climb_rate \div TicksPerMinute
        descent == type.descent_rate \div TicksPerMinute
    IN  IF Abs(delta) < AltitudeSnap
        THEN target
        ELSE IF delta > 0
             THEN Min(current_altitude + climb, target)
             ELSE Max(current_altitude - descent, target)

\* the delta without "if delta > 180: delta -= 360"
BearingDelta_unwrapped(bearing, new_bearing_deg) ==
    (new_bearing_deg - bearing + 360) % 360

\* delta = (new - bearing + 360) % 360; if delta > 180: delta -= 360
BearingDelta(bearing, new_bearing_deg) ==
    LET delta == (new_bearing_deg - bearing + 360) % 360
    IN  IF delta > 180 THEN delta - 360 ELSE delta

\* turn_amount = turn_rate * tick_duration_minutes
TurnAmount(type) == type.turn_rate \div TicksPerMinute

update_bearing(type, bearing, new_bearing_deg) ==
    LET delta == BearingDelta(bearing, new_bearing_deg)
        turn_amount == TurnAmount(type)
    IN  IF Abs(delta) <= turn_amount
        THEN new_bearing_deg
        ELSE (bearing + (IF delta > 0 THEN turn_amount ELSE -turn_amount)) % 360

\* the squawk "1200" as its string of digits
VFR_SQUAWK == <<1, 2, 0, 0>>

(***************************************************************************)
(* Aircraft.__init__: the assigned targets start at the current altitude,  *)
(* the profile's cruise speed and the current bearing.                     *)
(***************************************************************************)
NewAircraft(type, bearing, v, altitude) ==
    /\ aircraft_type = type
    /\ bearing_deg = bearing
    /\ velocity = v
    /\ mode_c = altitude
    /\ assigned_altitude = altitude
    /\ assigned_speed = type.cruise_speed
    /\ assigned_bearing_deg = bearing
    /\ ads_b = 0
    /\ mode_a = VFR_SQUAWK

\* RadarWindow.__init__ (ATC.py): angle 0, nothing drawn from a tick yet
NewRadarWindow ==
    /\ qt_angle = 0
    /\ qt_ticks = 0
    /\ canvas = [angle |-> 0, sweep_advances |-> 0, aircraft_updates |-> 0]

\* RadarDisplay.__init__ (radar.py): sweep at 0, no returns
NewRadarDisplay(list) ==
    /\ aircraft_list = list
    /\ radar_sweep_angle = 0
    /\ radar_returns = <<>>
    /\ frames = 0
    /\ ticks = 0
    /\ calls = [sweep_update |-> 0, returns_update |-> 0]

\* the parts of the state a specification does not exercise
ParkedAircraft == NewAircraft(LightType, 0, LightType.cruise_speed, 5000)
EmptyRadarDisplay == NewRadarDisplay(<<>>)

(***************************************************************************)
(* Calls of the update operations on one aircraft.                         *)
(***************************************************************************)
\* update_speed that also records the target as the assigned speed
CallUpdateSpeed_storing_target(target_speed) ==
    /\ velocity' = update_speed(aircraft_type, velocity, mode_c, target_speed)
    /\ assigned_speed' = target_speed
    /\ UNCHANGED <<aircraft_type, mode_c, bearing_deg, assigned_altitude,
                   assigned_bearing_deg, ads_b, mode_a>>
    /\ UNCHANGED <<qt_vars, radar_vars>>

CallUpdateSpeed(target_speed) ==
    /\ velocity' = update_speed(aircraft_type, velocity, mode_c, target_speed)
    /\ UNCHANGED <<aircraft_type, mode_c, bearing_deg, assigned_speed,
                   assigned_altitude, assigned_bearing_deg, ads_b,
                   mode_a>>
    /\ UNCHANGED <<qt_vars, radar_vars>>

\* update_speed(): "if target_speed is None: target_speed = cruise_speed"
CallUpdateSpeedDefault == CallUpdateSpeed(aircraft_type.cruise_speed)

CallUpdateAltitude(target) ==
    /\ mode_c' = update_altitude(aircraft_type, mode_c, target)
    /\ UNCHANGED <<aircraft_type, velocity, bearing_deg, assigned_speed,
                   assigned_altitude, assigned_bearing_deg, ads_b,
                   mode_a>>
    /\ UNCHANGED <<qt_vars, radar_vars>>

CallUpdateBearing(new_bearing_deg) ==
    /\ bearing_deg' = update_bearing(aircraft_type, bearing_deg, new_bearing_deg)
    /\ UNCHANGED <<aircraft_type, velocity, mode_c, assigned_speed,
                   assigned_altitude, assigned_bearing_deg, ads_b,
                   mode_a>>
    /\ UNCHANGED <<qt_vars, radar_vars>>

(***************************************************************************)
(* Aircraft.update_flight_profile: speed, then altitude, then bearing,     *)
(* each toward the assigned target.  update_speed reads the altitude the   *)
(* previous tick left.                                                     *)
(***************************************************************************)
\* update_flight_profile without the update_altitude call
update_flight_profile_no_altitude ==
    /\ velocity' = update_speed(aircraft_type, velocity, mode_c, assigned_speed)
    /\ bearing_deg' = update_bearing(aircraft_type, bearing_deg, assigned_bearing_deg)
    /\ UNCHANGED <<aircraft_type, mode_c, assigned_speed, assigned_altitude,
                   assigned_bearing_deg>>

\* update_flight_profile calling update_altitude before update_speed
update_flight_profile_altitude_first ==
    /\ mode_c' = update_altitude(aircraft_type, mode_c, assigned_altitude)
    /\ velocity' = update_speed(aircraft_type, velocity, mode_c', assigned_speed)
    /\ bearing_deg' = update_bearing(aircraft_type, bearing_deg, assigned_bearing_deg)
    /\ UNCHANGED <<aircraft_type, assigned_speed, assigned_altitude,
                   assigned_bearing_deg>>

update_flight_profile ==
    /\ velocity' = update_speed(aircraft_type, velocity, mode_c, assigned_speed)
    /\ mode_c' = update_altitude(aircraft_type, mode_c, assigned_altitude)
    /\ bearing_deg' = update_bearing(aircraft_type, bearing_deg, assigned_bearing_deg)
    /\ UNCHANGED <<aircraft_type, assigned_speed, assigned_altitude,
                   assigned_bearing_deg>>

CallUpdateFlightProfile ==
    /\ update_flight_profile
    /\ UNCHANGED <<ads_b, mode_a, qt_vars, radar_vars>>

(***************************************************************************)
(* SpecSpeed: one aircraft under arbitrary update_speed and                *)
(* update_altitude calls.                                                  *)
(***************************************************************************)
\* targets below 0, inside the envelope and above every max_speed
SpeedTargets == {-5000, 0, 3000, 8000, 11000, 12200, 20000}

\* targets that move the aircraft through the three altitude bands
BandAltitudes == {5000, 10000, 15000, 20000}

InitSpeed ==
    /\ \E type \in {LightType, FastType}, v \in {0, 5000} :
           NewAircraft(type, 0, v, 5000)
    /\ NewRadarWindow
    /\ EmptyRadarDisplay

SpeedCall == \E t \in SpeedTargets : CallUpdateSpeed(t)

AltitudeBandCall == \E t \in BandAltitudes : CallUpdateAltitude(t)

NextSpeed == SpeedCall \/ CallUpdateSpeedDefault \/ AltitudeBandCall

SpecSpeed == InitSpeed /\ [][NextSpeed]_vars

\* C1: velocity stays in [0, max_speed] under any update_speed calls with
\* any targets, interleaved with any update_altitude calls.
C1_SpeedBounds == 0 <= velocity /\ velocity <= aircraft_type.max_speed

\* The clamp has acted (no aircraft starts at max_speed) in the highest
\* altitude band, reached by update_altitude calls.
C1_Witness == velocity = aircraft_type.max_speed /\ mode_c = 20000

(***************************************************************************)
(* SpecHold: an aircraft is built, given an assigned speed above its       *)
(* velocity and at most max_speed, and then ticked with                    *)
(* update_flight_profile; nothing reassigns the target.                    *)
(***************************************************************************)
InitHold ==
    /\ \E type \in {LightType, FastType, SlowType}, v \in {0, 2000},
          altitude \in {5000, 15000, 25000} :
           /\ aircraft_type = type
           /\ bearing_deg = 0
           /\ velocity = v
           /\ mode_c = altitude
           /\ assigned_altitude = altitude
           /\ assigned_bearing_deg = 0
           /\ assigned_speed \in {type.cruise_speed, type.max_speed, 3000}
           /\ v < assigned_speed
           /\ ads_b = 0
           /\ mode_a = VFR_SQUAWK
    /\ NewRadarWindow
    /\ EmptyRadarDisplay

SpecHold == InitHold /\ [][CallUpdateFlightProfile]_vars

\* the band in which speed_status reports "Cruise": abs(delta) < 5
CruiseBand == 500

\* C2: with velocity < target <= max_speed, every repeated
\* update_speed(target) call strictly increases velocity until it is within
\* epsilon of the target, and from then on leaves it unchanged.
C2_SpeedConvergence ==
    [][CallUpdateFlightProfile =>
         \/ velocity' > velocity
         \/ /\ velocity' = velocity
            /\ Abs(assigned_speed - velocity) < CruiseBand]_vars

(***************************************************************************)
(* SpecBearing: one aircraft under arbitrary update_bearing calls.         *)
(***************************************************************************)
\* targets inside [0, 360), at and above 360, and below 0
BearingTargets == {-10, 0, 5, 10, 90, 180, 350, 360, 370, 725}

InitBearing ==
    /\ \E type \in {LightType, FastType}, bearing \in {0, 170, 350, 359} :
           NewAircraft(type, bearing, type.cruise_speed, 5000)
    /\ NewRadarWindow
    /\ EmptyRadarDisplay

BearingCall == \E t \in BearingTargets : CallUpdateBearing(t)

SpecBearing == InitBearing /\ [][BearingCall]_vars

\* C3: bearing_deg stays in [0, 360) under any update_bearing calls with
\* any targets, including targets >= 360 or < 0.
C3_BearingNormalised == 0 <= bearing_deg /\ bearing_deg < 360

\* C4: when the absolute shortest delta to the target is at most
\* turn_rate x tick_duration, one update_bearing(target) call sets
\* bearing_deg to exactly target mod 360.
C4_BearingSnap ==
    [][\A t \in BearingTargets :
         (/\ CallUpdateBearing(t)
          /\ Abs(BearingDelta(bearing_deg, t)) <= TurnAmount(aircraft_type))
         => bearing_deg' = t % 360]_vars
(***************************************************************************)
(* constants.py and the literals of radar.py, in the model's units.        *)
(***************************************************************************)
TWO_PI == 1440
ANGLE_TOLERANCE == TWO_PI \div 120
FULL_ROTATION_TIME_SECONDS == 2
FPS == 60
SWEEP_SPEED == TWO_PI \div (FULL_ROTATION_TIME_SECONDS * FPS)
DISPLAY_RADIUS == 400
MAX_DISTANCE_MILES == 360000
\* a new return's opacity 1.0, and the 0.1 / 60 it loses per update
FULL_OPACITY == 600
FADE == 1

(***************************************************************************)
(* RadarSweep.update: one step clockwise, wrapped at 2 pi.                 *)
(***************************************************************************)
RadarSweep_update_unwrapped(angle) == angle + SWEEP_SPEED

RadarSweep_update(angle) == (angle + SWEEP_SPEED) % TWO_PI

\* The double nearest to the exact result: the exact result when rounding
\* is 0, one quantum beside it otherwise.
Rounded(angle, rounding) ==
    IF rounding = 0 THEN angle ELSE (angle + rounding) % TWO_PI

(***************************************************************************)
(* RadarReturnManager.  A return is [angle, distance, opacity]; the model  *)
(* adds the history field age, the number of update() calls it has been    *)
(* through.                                                                *)
(***************************************************************************)
\* add_return putting the new return at the head of the list
RadarReturnManager_add_return_front(returns, angle, distance) ==
    <<[angle |-> angle, distance |-> distance,
       opacity |-> FULL_OPACITY, age |-> 0]>> \o returns

RadarReturnManager_add_return(returns, angle, distance) ==
    Append(returns, [angle |-> angle, distance |-> distance,
                     opacity |-> FULL_OPACITY, age |-> 0])

Faded(r) == [r EXCEPT !.opacity = @ - FADE, !.age = @ + 1]

RadarReturnManager_update_keep_zero(returns) ==
    SelectSeq([i \in DOMAIN returns |-> Faded(returns[i])],
              LAMBDA r : r.opacity >= 0)

RadarReturnManager_update(returns) ==
    SelectSeq([i \in DOMAIN returns |-> Faded(returns[i])],
              LAMBDA r : r.opacity > 0)

(***************************************************************************)
(* PrimaryRadarReturn.add_return: the beam test, the plain absolute        *)
(* difference of the two angles.                                           *)
(***************************************************************************)
\* the beam test recording the return twice
PrimaryRadarReturn_twice(returns, aircraft, sweep_angle) ==
    IF Abs(aircraft.angle - sweep_angle) < ANGLE_TOLERANCE
    THEN RadarReturnManager_add_return(
             RadarReturnManager_add_return(returns, aircraft.angle, aircraft.distance),
             aircraft.angle, aircraft.distance)
    ELSE returns

PrimaryRadarReturn(returns, aircraft, sweep_angle) ==
    IF Abs(aircraft.angle - sweep_angle) < ANGLE_TOLERANCE
    THEN RadarReturnManager_add_return(returns, aircraft.angle, aircraft.distance)
    ELSE returns

\* draw_aircraft: "if distance_in_pixels <= DISPLAY_RADIUS", with
\* distance_in_pixels = DISPLAY_RADIUS * (distance / MAX_DISTANCE_MILES)
OnDisplay(aircraft) ==
    DISPLAY_RADIUS * aircraft.distance <= DISPLAY_RADIUS * MAX_DISTANCE_MILES

\* RadarDisplay.draw_aircraft, from the i-th aircraft of the list on
RECURSIVE draw_aircraft(_, _, _, _)
draw_aircraft(returns, list, sweep_angle, i) ==
    IF i > Len(list) THEN returns
    ELSE draw_aircraft(IF OnDisplay(list[i])
                       THEN PrimaryRadarReturn(returns, list[i], sweep_angle)
                       ELSE returns,
                       list, sweep_angle, i + 1)

(***************************************************************************)
(* aircraft.py: Aircraft.on_ground and AircraftList.update_positions.      *)
(* speed * KNOTS_TO_MILES_PER_FRAME is speed / 3600 / FPS miles.           *)
(***************************************************************************)
\* on_ground that moves the aircraft whatever its landed flag
on_ground_always(aircraft) ==
    [aircraft EXCEPT
        !.distance = (@ + aircraft.speed \div FPS) % MAX_DISTANCE_MILES]

on_ground(aircraft) ==
    IF ~aircraft.landed
    THEN [aircraft EXCEPT
            !.distance = (@ + aircraft.speed \div FPS) % MAX_DISTANCE_MILES]
    ELSE aircraft

update_positions(list) == [i \in DOMAIN list |-> on_ground(list[i])]

(***************************************************************************)
(* RadarDisplay.on_draw: draw_sweep advances the sweep, draw_aircraft      *)
(* tests every aircraft on the display against the advanced sweep, and     *)
(* the returns are faded last.                                             *)
(***************************************************************************)
on_draw(rounding) ==
    LET angle == Rounded(RadarSweep_update(radar_sweep_angle), rounding)
    IN  /\ radar_sweep_angle' = angle
        /\ radar_returns' = RadarReturnManager_update(
                                draw_aircraft(radar_returns, aircraft_list, angle, 1))
        /\ frames' = frames + 1
        /\ calls' = [sweep_update |-> calls.sweep_update + 1,
                     returns_update |-> calls.returns_update + 1]
        /\ UNCHANGED <<aircraft_list, ticks>>
        /\ UNCHANGED <<aircraft_vars, qt_vars>>

\* RadarDisplay.update(delta_time)
RadarDisplay_update ==
    /\ aircraft_list' = update_positions(aircraft_list)
    /\ ticks' = ticks + 1
    /\ UNCHANGED <<radar_sweep_angle, radar_returns, frames, calls>>
    /\ UNCHANGED <<aircraft_vars, qt_vars>>
(***************************************************************************)
(* SpecRadar: the arcade window (radar.py).  The framework calls on_draw   *)
(* and update in any order.                                                *)
(***************************************************************************)
MaxFrames == 610
MaxTicks == 1

\* The fleets flown: the first aircraft of main.py (pi/6, 50 miles, 120
\* knots); one just below 2 pi with one at pi/20; a landed one beyond the
\* display with one about to wrap at MAX_DISTANCE_MILES.
Fleets ==
    { <<[angle |-> 120, distance |-> 180000, speed |-> 120, landed |-> FALSE]>>,
      <<[angle |-> 1432, distance |-> 108000, speed |-> 600, landed |-> FALSE],
        [angle |-> 36, distance |-> 270000, speed |-> 480, landed |-> FALSE]>>,
      <<[angle |-> 12, distance |-> 540000, speed |-> 0, landed |-> TRUE],
        [angle |-> 240, distance |-> 359995, speed |-> 600, landed |-> FALSE]>> }

InitRadar ==
    /\ \E list \in Fleets : NewRadarDisplay(list)
    /\ ParkedAircraft
    /\ NewRadarWindow

OnDraw == frames < MaxFrames /\ on_draw(0)

Update == ticks < MaxTicks /\ RadarDisplay_update

NextRadar == OnDraw \/ Update

SpecRadar == InitRadar /\ [][NextRadar]_vars

\* the returns of this frame for the aircraft, after the frame's fade
FreshReturns(returns, aircraft) ==
    {j \in DOMAIN returns :
        returns[j].angle = aircraft.angle /\ returns[j].age = 1}

\* abs((a - b + pi) mod 2 pi - pi)
CircularDistance(a, b) ==
    Abs(((a - b + TWO_PI \div 2) % TWO_PI) - TWO_PI \div 2)

\* C5: a frame records a new blip for an aircraft on the display if and
\* only if the shortest-path angular distance between the aircraft angle
\* and the sweep angle is below the tolerance.
C5_BeamCircular ==
    [][OnDraw =>
         \A i \in DOMAIN aircraft_list :
            OnDisplay(aircraft_list[i]) =>
               (FreshReturns(radar_returns', aircraft_list[i]) # {}
                <=> CircularDistance(aircraft_list[i].angle, radar_sweep_angle')
                       < ANGLE_TOLERANCE)]_vars

\* the number of update() calls a return lives through: ceil(1 / r)
LifetimeCalls == (FULL_OPACITY + FADE - 1) \div FADE

\* C6: a blip that has been through k update() calls has opacity
\* max(0, 1 - k r) and k < ceil(1/r); every call with k + 1 < ceil(1/r)
\* keeps it, and the ceil(1/r)-th call (the 600th) removes it.
C6_BlipLifecycle ==
    /\ [](\A j \in DOMAIN radar_returns :
            /\ radar_returns[j].age < LifetimeCalls
            /\ radar_returns[j].opacity
                  = Max(0, FULL_OPACITY - radar_returns[j].age * FADE))
    /\ [][OnDraw =>
            \A j \in DOMAIN radar_returns :
               LET kept == \E n \in DOMAIN radar_returns' :
                              radar_returns'[n] = Faded(radar_returns[j])
               IN  (radar_returns[j].age + 1 < LifetimeCalls) <=> kept]_vars

\* a blip one call before its removal, after 599 calls
C6_Witness ==
    \E j \in DOMAIN radar_returns :
       /\ radar_returns[j].age = 599
       /\ radar_returns[j].opacity = FADE
       /\ frames > 600

\* C7: after N RadarSweep.update() calls the angle is (N x sweep_speed)
\* mod 2 pi; it is in [0, 2 pi) in every state and changes only by
\* +sweep_speed with wraparound, back at 0 after 120 updates.
C7_SweepAngle ==
    /\ [](/\ radar_sweep_angle = (calls.sweep_update * SWEEP_SPEED) % TWO_PI
          /\ 0 <= radar_sweep_angle /\ radar_sweep_angle < TWO_PI
          /\ (calls.sweep_update = FULL_ROTATION_TIME_SECONDS * FPS
                 => radar_sweep_angle = 0))
    /\ [][\/ radar_sweep_angle' = radar_sweep_angle + SWEEP_SPEED
          \/ radar_sweep_angle' = radar_sweep_angle + SWEEP_SPEED - TWO_PI]_radar_sweep_angle

\* the sweep has wrapped: back at 0 after 120 updates
C7_Witness == calls.sweep_update = 120 /\ radar_sweep_angle = 0

\* C9: under any interleaving of update and on_draw, the sweep advance and
\* the ledger decay each run once per simulation tick: their counts never
\* differ from the number of ticks by more than the one tick in progress.
C9_OncePerTick ==
    /\ Abs(calls.sweep_update - ticks) <= 1
    /\ Abs(calls.returns_update - ticks) <= 1
(***************************************************************************)
(* SpecRounded: the same window with the sweep angle as the program holds  *)
(* it, a double: each "angle + sweep_speed" is the exact sum or a          *)
(* neighbouring double.                                                    *)
(***************************************************************************)
MaxRoundedFrames == 5
RoundingErrors == {-1, 0, 1}

OnDrawRounded ==
    /\ frames < MaxRoundedFrames
    /\ \E rounding \in RoundingErrors : on_draw(rounding)

NextRounded == OnDrawRounded \/ Update

SpecRounded == InitRadar /\ [][NextRounded]_vars

\* C10: when an aircraft's angle equals the sweep angle and the contact
\* test has created its one blip, the next frame, with the sweep one step
\* further and the aircraft unchanged, creates no new blip for it and
\* leaves the existing blip's opacity lower by exactly the fade rate.
C10_RadarContact ==
    [][OnDrawRounded =>
         \A i \in DOMAIN aircraft_list :
            LET aircraft == aircraft_list[i]
                fresh == FreshReturns(radar_returns, aircraft)
            IN  (/\ OnDisplay(aircraft)
                 /\ aircraft.angle = radar_sweep_angle
                 /\ Cardinality(fresh) = 1)
                => /\ FreshReturns(radar_returns', aircraft) = {}
                   /\ \A j \in fresh :
                         \E n \in DOMAIN radar_returns' :
                            /\ radar_returns'[n].angle = radar_returns[j].angle
                            /\ radar_returns'[n].age = 2
                            /\ radar_returns'[n].opacity
                                  = radar_returns[j].opacity - FADE]_vars

(***************************************************************************)
(* SpecQt: the PyQt window (ATC.py).  RadarWindow.timerEvent advances the  *)
(* sweep, draws it, and then updates the aircraft; the model follows one   *)
(* aircraft of the list.                                                   *)
(***************************************************************************)
MaxQtTicks == 130

\* "np.pi / 60" of timerEvent
QT_SWEEP_STEP == TWO_PI \div 120

\* Aircraft.update_position: velocity x tick duration further along the
\* bearing; the model keeps the distance flown, in velocity units x ticks.
update_position == ads_b' = ads_b + velocity

InitQt ==
    /\ \E type \in {LightType, FastType, SlowType},
          bearing \in {170, 250, 350}, altitude \in {5000, 10000, 15000} :
           NewAircraft(type, bearing, type.cruise_speed, altitude)
    /\ NewRadarWindow
    /\ EmptyRadarDisplay

timerEvent ==
    /\ qt_ticks < MaxQtTicks
    /\ qt_angle' = (qt_angle + QT_SWEEP_STEP) % TWO_PI
    \* self.canvas.draw_radar_sweep(self.angle): drawn before the loop
    /\ canvas' = [angle |-> qt_angle', sweep_advances |-> qt_ticks + 1,
                  aircraft_updates |-> qt_ticks]
    /\ update_flight_profile
    /\ update_position
    /\ qt_ticks' = qt_ticks + 1
    /\ UNCHANGED <<mode_a, radar_vars>>

SpecQt == InitQt /\ [][timerEvent]_vars

\* C8: within every tick the aircraft are updated first and the sweep is
\* advanced after them; no frame is drawn from a state in which the sweep
\* has advanced for a tick whose aircraft updates have not been applied.
C8_TickOrdering == canvas.sweep_advances <= canvas.aircraft_updates
(***************************************************************************)
(* SpecAltitude: one aircraft under arbitrary update_altitude calls.       *)
(***************************************************************************)
\* targets below 0, inside and outside the snap band of the start
\* altitudes, and far away
AltitudeTargets == {-500, -30, 0, 20, 40, 100, 1000, 1040, 1100, 6000}

InitAltitude ==
    /\ \E type \in {LightType, SlowType, HeavyType}, altitude \in {30, 1000, 5000} :
           NewAircraft(type, 0, type.cruise_speed, altitude)
    /\ NewRadarWindow
    /\ EmptyRadarDisplay

AltitudeCall == \E t \in AltitudeTargets : CallUpdateAltitude(t)

SpecAltitude == InitAltitude /\ [][AltitudeCall]_vars

\* C11: mode_c stays >= 0 under any update_altitude calls with any
\* targets; a negative target is taken as 0: the call is carried out, the
\* altitude does not rise, and from inside the snap band it lands on 0.
C11_AltitudeFloor ==
    /\ [](mode_c >= 0)
    /\ [][\A t \in AltitudeTargets :
            (CallUpdateAltitude(t) /\ t < 0)
            => /\ mode_c' <= mode_c
               /\ (mode_c > 0 => mode_c' < mode_c)
               /\ (mode_c < AltitudeSnap => mode_c' = 0)]_vars

\* on the ground, where no aircraft starts
C11_Witness == mode_c = 0

\* C12: when |target - altitude| < 50, one update_altitude(target) call
\* sets the altitude to exactly max(0, target).
C12_AltitudeSnap ==
    [][\A t \in AltitudeTargets :
         (CallUpdateAltitude(t) /\ Abs(t - mode_c) < 50)
         => mode_c' = Max(0, t)]_vars

\* 1040 ft at 10 ft per tick: four climb steps short of the band, or the
\* snap from 1000 ft
C12_Witness == mode_c = 1040 /\ aircraft_type = HeavyType

\* C13: when |clamped target - altitude| >= 50, one update_altitude(target)
\* call moves the altitude toward the clamped target, by at most
\* climb_rate x tick (up) or descent_rate x tick (down), and never past it.
C13_NoOvershoot ==
    [][\A t \in AltitudeTargets :
         LET target == Max(0, t)
             climb == aircraft_type.climb_rate \div TicksPerMinute
             descent == aircraft_type.descent_rate \div TicksPerMinute
         IN  (CallUpdateAltitude(t) /\ Abs(target - mode_c) >= 50)
             => /\ target > mode_c =>
                     /\ mode_c < mode_c' /\ mode_c' <= target
                     /\ mode_c' - mode_c <= climb
                /\ target < mode_c =>
                     /\ target <= mode_c' /\ mode_c' < mode_c
                     /\ mode_c - mode_c' <= descent]_vars

\* the fast climber stopped at a target 100 ft away; it climbs 5000 ft a
\* tick and the snap band is 50 ft
C13_Witness == mode_c = 1100 /\ aircraft_type = LightType
(***************************************************************************)
(* SpecProfile: an aircraft with assigned targets away from its state,     *)
(* ticked with update_flight_profile for ever: the timer of the window     *)
(* keeps firing.                                                           *)
(***************************************************************************)
InitProfile ==
    /\ \E type \in {LightType, FastType, SlowType, HeavyType},
          v \in {0, 2000}, altitude \in {30, 9990, 15000} :
           /\ aircraft_type = type
           /\ bearing_deg = 0
           /\ velocity = v
           /\ mode_c = altitude
           /\ assigned_altitude \in {-500, 0, 1000, 10050, 20000}
           /\ assigned_speed = type.cruise_speed
           /\ assigned_bearing_deg \in {0, 90}
           /\ ads_b = 0
           /\ mode_a = VFR_SQUAWK
    /\ NewRadarWindow
    /\ EmptyRadarDisplay

SpecProfile ==
    /\ InitProfile
    /\ [][CallUpdateFlightProfile]_vars
    /\ WF_vars(CallUpdateFlightProfile)

\* C14: for a fixed target, repeated update_altitude(target) calls reach
\* altitude = max(0, target) after finitely many calls, and every later
\* call leaves the altitude there.
C14_AltitudeConvergence ==
    /\ <>[](mode_c = Max(0, assigned_altitude))
    /\ [][mode_c = Max(0, assigned_altitude) => mode_c' = mode_c]_vars

\* the slowest climber has arrived at 20,000 ft, where no aircraft starts
C14_Witness ==
    /\ aircraft_type = HeavyType
    /\ assigned_altitude = 20000
    /\ mode_c = 20000

(***************************************************************************)
(* The three updates of one tick applied in a given order to a state       *)
(* <<velocity, altitude, bearing>>.                                        *)
(***************************************************************************)
ApplyUpdate(step, st) ==
    CASE step = "speed" ->
            <<update_speed(aircraft_type, st[1], st[2], assigned_speed), st[2], st[3]>>
      [] step = "altitude" ->
            <<st[1], update_altitude(aircraft_type, st[2], assigned_altitude), st[3]>>
      [] step = "bearing" ->
            <<st[1], st[2], update_bearing(aircraft_type, st[3], assigned_bearing_deg)>>

InOrder(order) ==
    ApplyUpdate(order[3], ApplyUpdate(order[2], ApplyUpdate(order[1],
        <<velocity, mode_c, bearing_deg>>)))

Orders ==
    { <<"speed", "altitude", "bearing">>, <<"speed", "bearing", "altitude">>,
      <<"altitude", "speed", "bearing">>, <<"altitude", "bearing", "speed">>,
      <<"bearing", "speed", "altitude">>, <<"bearing", "altitude", "speed">> }

SpeedBeforeAltitude(order) ==
    \E i, j \in 1..3 : i < j /\ order[i] = "speed" /\ order[j] = "altitude"

\* C17: applying update_speed, update_altitude and update_bearing once
\* each gives the same (velocity, altitude, bearing) in each of the six
\* orders as update_flight_profile gives.
C17_OrderIrrelevant ==
    [][CallUpdateFlightProfile =>
         \A order \in Orders :
            InOrder(order) = <<velocity', mode_c', bearing_deg'>>]_vars

\* C17 as amended: every order gives the altitude and the bearing of
\* update_flight_profile; it gives its velocity too when update_speed runs
\* before update_altitude or the altitude stays within its altitude band.
C17_OrderAmended ==
    [][CallUpdateFlightProfile =>
         \A order \in Orders :
            LET after == InOrder(order)
            IN  /\ after[2] = mode_c'
                /\ after[3] = bearing_deg'
                /\ (\/ SpeedBeforeAltitude(order)
                    \/ AltitudeFactor(mode_c') = AltitudeFactor(mode_c))
                   => after[1] = velocity']_vars

\* the tick that took the fast climber from 9,990 ft across the 10,000 ft
\* band edge while it was accelerating
C17_Witness ==
    /\ aircraft_type = LightType
    /\ mode_c = 10050
    /\ velocity = 150
\* C15: a call of update_bearing that does not snap rotates the bearing by
\* turn_rate x tick_duration along the smaller arc: up when
\* (target - current) mod 360 is in (0, 180], down when it is in
\* (180, 360); from 350 toward 10 the bearing rises through 0.
C15_ShortestPath ==
    [][\A t \in BearingTargets :
         LET m == (t - bearing_deg) % 360
             arc == IF m > 180 THEN 360 - m ELSE m
             turn == aircraft_type.turn_rate \div TicksPerMinute
         IN  (CallUpdateBearing(t) /\ arc > turn)
             => /\ (0 < m /\ m <= 180) => bearing_deg' = (bearing_deg + turn) % 360
                /\ (180 < m /\ m < 360) => bearing_deg' = (bearing_deg - turn) % 360
                /\ (bearing_deg = 350 /\ t = 10) => bearing_deg' = 350 + turn]_vars

\* 7 degrees a tick from 350 toward 10: 357, then 4, through 0
C15_Witness == aircraft_type = FastType /\ bearing_deg = 4
(***************************************************************************)
(* SpecTurn: repeated update_bearing calls toward a fixed assigned         *)
(* bearing in [0, 360), with the bearing as the program holds it, a        *)
(* double.  When the turn amount is a whole number of degrees the sums     *)
(* are exact; otherwise "bearing_deg += turn_amount" is the exact sum or   *)
(* a neighbouring value.  The snap assigns the target itself.              *)
(***************************************************************************)
TurnRounding(type) ==
    IF type.turn_rate % TicksPerMinute = 0 THEN {0} ELSE RoundingErrors

update_bearing_rounded(type, bearing, new_bearing_deg, rounding) ==
    IF Abs(BearingDelta(bearing, new_bearing_deg)) <= TurnAmount(type)
    THEN update_bearing(type, bearing, new_bearing_deg)
    ELSE (update_bearing(type, bearing, new_bearing_deg) + rounding) % 360

InitTurn ==
    /\ \E type \in {LightType, AirlinerType}, bearing \in {0, 170, 350} :
           /\ aircraft_type = type
           /\ bearing_deg = bearing
           /\ velocity = type.cruise_speed
           /\ mode_c = 5000
           /\ assigned_altitude = 5000
           /\ assigned_speed = type.cruise_speed
           /\ assigned_bearing_deg \in {0, 9, 10, 90, 180, 270, 359}
           /\ ads_b = 0
           /\ mode_a = VFR_SQUAWK
    /\ NewRadarWindow
    /\ EmptyRadarDisplay

TurnCall ==
    /\ \E rounding \in TurnRounding(aircraft_type) :
          bearing_deg' = update_bearing_rounded(aircraft_type, bearing_deg,
                                                assigned_bearing_deg, rounding)
    /\ UNCHANGED <<aircraft_type, velocity, mode_c, assigned_speed,
                   assigned_altitude, assigned_bearing_deg, ads_b,
                   mode_a>>
    /\ UNCHANGED <<qt_vars, radar_vars>>

SpecTurn == InitTurn /\ [][TurnCall]_vars /\ WF_vars(TurnCall)

\* the absolute shortest delta from the bearing to the target
ShortestDelta(bearing, target) ==
    LET m == (target - bearing) % 360
    IN  IF m > 180 THEN 360 - m ELSE m

\* ceil(|delta| / t)
CallsToGo(bearing, target, t) == (ShortestDelta(bearing, target) + t - 1) \div t

\* C16: with a fixed target in [0, 360) and turn amount t, every
\* non-snapping update_bearing(target) call reduces the absolute shortest
\* delta by exactly t, the target is reached exactly after ceil(|delta0| / t)
\* calls, one call fewer to go after each call, and the bearing then stays;
\* from 0 to 90 with t = 3 that is 30 calls.
C16_BearingConvergence ==
    /\ [][TurnCall =>
            LET t == aircraft_type.turn_rate \div TicksPerMinute
                delta == ShortestDelta(bearing_deg, assigned_bearing_deg)
                togo == CallsToGo(bearing_deg, assigned_bearing_deg, t)
            IN  /\ delta > t =>
                      ShortestDelta(bearing_deg', assigned_bearing_deg) = delta - t
                /\ togo > 0 =>
                      CallsToGo(bearing_deg', assigned_bearing_deg, t) = togo - 1
                /\ togo <= 1 => bearing_deg' = assigned_bearing_deg]_vars
    /\ []((aircraft_type = LightType /\ bearing_deg = 0 /\ assigned_bearing_deg = 90)
             => CallsToGo(bearing_deg, assigned_bearing_deg, 3) = 30)
    /\ <>[](bearing_deg = assigned_bearing_deg)
(***************************************************************************)
(* SpecConstruct: profiles built with arbitrary arguments.                 *)
(* AircraftType.__init__ stores what it is given; an Aircraft is then      *)
(* built on the profile and update_speed called on it.                     *)
(***************************************************************************)
AircraftType(name, base_accel, cruise_speed, max_speed, climb_rate, descent_rate, turn_rate) ==
    [name |-> name, base_accel |-> base_accel, cruise_speed |-> cruise_speed,
     max_speed |-> max_speed, climb_rate |-> climb_rate,
     descent_rate |-> descent_rate, turn_rate |-> turn_rate]

\* the cruise and maximum speeds offered to the constructor
CruiseArguments == {0, 4000, 11000}
MaxSpeedArguments == {-100, 0, 4500, 12200}

InitConstruct ==
    /\ ParkedAircraft
    /\ NewRadarWindow
    /\ EmptyRadarDisplay

\* AircraftType(...) followed by Aircraft(profile, ...)
Construct ==
    /\ \E cruise \in CruiseArguments, max \in MaxSpeedArguments, v \in {0, 2000} :
          /\ aircraft_type' = AircraftType("built", 150, cruise, max, 72000, 84000, 3600)
          /\ velocity' = v
          /\ assigned_speed' = cruise
    /\ bearing_deg' = 0
    /\ mode_c' = 5000
    /\ assigned_altitude' = 5000
    /\ assigned_bearing_deg' = 0
    /\ ads_b' = 0
    /\ mode_a' = VFR_SQUAWK
    /\ UNCHANGED <<qt_vars, radar_vars>>

\* update_speed on a profile with cruise_speed 0: "velocity / cruise_speed"
\* raises ZeroDivisionError before anything is assigned
ConstructedSpeedCall ==
    \E t \in SpeedTargets :
       IF aircraft_type.cruise_speed = 0 /\ velocity # t
       THEN UNCHANGED vars
       ELSE CallUpdateSpeed(t)

NextConstruct == Construct \/ ConstructedSpeedCall

SpecConstruct == InitConstruct /\ [][NextConstruct]_vars

\* C18: a profile with cruise_speed <= 0 or max_speed <= 0 is rejected at
\* construction, so no reachable state holds a profile on which
\* get_acceleration would divide by a zero or negative cruise_speed.
C18_ProfileValidated ==
    aircraft_type.cruise_speed > 0 /\ aircraft_type.max_speed > 0

\* what the reference gives for get_acceleration: base_accel x
\* max(0.2, 1 - v/cruise) x altitude_factor x 1 / (1 + (v/cruise)^2), with
\* altitude_factor 1.0 below 10,000 ft, 0.8 from 10,000 ft to below
\* 20,000 ft, 0.6 from 20,000 ft
ReferenceAcceleration(type, altitude, v) ==
    LET ratio == (1000 * v) \div type.cruise_speed
        thrust == IF 1000 - ratio > 200 THEN 1000 - ratio ELSE 200
        factor == CASE altitude < 10000 -> 1000
                    [] altitude >= 10000 /\ altitude < 20000 -> 800
                    [] OTHER -> 600
        drag == 1000000 \div (1000 + (ratio * ratio) \div 1000)
    IN  (((((type.base_accel * thrust) \div 1000) * factor) \div 1000) * drag) \div 1000

C20_FirstTick ==
    [][(/\ CallUpdateSpeed(11000)
        /\ aircraft_type = LightType /\ velocity = 0 /\ mode_c = 5000)
       => /\ velocity' = 150
          /\ velocity' = Min(0 + get_acceleration(LightType, 5000, 0), 12200)]_vars

\* the light single after its first tick from rest at 5000 ft
C20_Witness == aircraft_type = LightType /\ velocity = 150 /\ mode_c = 5000

(***************************************************************************)
(* The three update commands on one aircraft, called in any order with     *)
(* targets of the caller's choosing.                                       *)
(***************************************************************************)
CommandSpeeds == {0, 20000}
CommandAltitudes == {1000, 6000}
CommandBearings == {0, 84}

InitCommands ==
    /\ NewAircraft(FastType, 0, 0, 1000)
    /\ NewRadarWindow
    /\ EmptyRadarDisplay

CommandSpeedCall == \E t \in CommandSpeeds : CallUpdateSpeed(t)
CommandAltitudeCall == \E t \in CommandAltitudes : CallUpdateAltitude(t)
CommandBearingCall == \E b \in CommandBearings : CallUpdateBearing(b)

NextCommands == CommandSpeedCall \/ CommandAltitudeCall \/ CommandBearingCall

SpecCommands == InitCommands /\ [][NextCommands]_vars

\* C21: update_speed changes only velocity, update_altitude only mode_c and
\* update_bearing only bearing_deg; none changes the assigned targets, the
\* position, the squawk, the shared profile or any other object.
C21_FrameEffect ==
    [][/\ CommandSpeedCall =>
            UNCHANGED <<aircraft_type, mode_c, bearing_deg, assigned_speed,
                        assigned_altitude, assigned_bearing_deg, ads_b,
                        mode_a, qt_vars, radar_vars>>
       /\ CommandAltitudeCall =>
            UNCHANGED <<aircraft_type, velocity, bearing_deg, assigned_speed,
                        assigned_altitude, assigned_bearing_deg, ads_b,
                        mode_a, qt_vars, radar_vars>>
       /\ CommandBearingCall =>
            UNCHANGED <<aircraft_type, velocity, mode_c, assigned_speed,
                        assigned_altitude, assigned_bearing_deg, ads_b,
                        mode_a, qt_vars, radar_vars>>]_vars

\* every command has moved its field away from the untouched target
C21_Witness ==
    /\ velocity > 0 /\ velocity # assigned_speed
    /\ mode_c = 6000 /\ assigned_altitude = 1000
    /\ bearing_deg = 84 /\ assigned_bearing_deg = 0
    /\ assigned_speed = aircraft_type.cruise_speed
    /\ mode_a = VFR_SQUAWK

(***************************************************************************)
(* The derived status properties of an aircraft, read while the flight     *)
(* profile is updated toward assigned targets on either side of the        *)
(* current values.                                                         *)
(***************************************************************************)
\* vertical_status: abs(delta) < 50 feet
LevelBand == 50
\* heading_status: abs(delta) > 1 degree
SteadyBand == 1

vertical_status ==
    LET delta == assigned_altitude - mode_c
    IN  IF Abs(delta) < LevelBand THEN "Level"
        ELSE IF delta > 0 THEN "Climbing" ELSE "Descending"

speed_status ==
    LET delta == assigned_speed - velocity
    IN  IF Abs(delta) < CruiseBand THEN "Cruise"
        ELSE IF delta > 0 THEN "Accelerating" ELSE "Slowing"

\* heading_status reporting "Turning" from one degree on
heading_status_from_one ==
    LET wrapped == (assigned_bearing_deg - bearing_deg + 360) % 360
        delta == IF wrapped > 180 THEN wrapped - 360 ELSE wrapped
    IN  IF Abs(delta) >= SteadyBand THEN "Turning" ELSE "Steady"

heading_status ==
    LET wrapped == (assigned_bearing_deg - bearing_deg + 360) % 360
        delta == IF wrapped > 180 THEN wrapped - 360 ELSE wrapped
    IN  IF Abs(delta) > SteadyBand THEN "Turning" ELSE "Steady"

InitStatus ==
    /\ \E type \in {LightType, FastType, HeavyType}, altitude \in {30, 5000},
          bearing \in {0, 180} :
           /\ aircraft_type = type
           /\ bearing_deg = bearing
           /\ velocity \in {0, type.max_speed}
           /\ mode_c = altitude
           /\ assigned_altitude \in {0, 1000, 5000}
           /\ assigned_speed \in {0, 3000, type.cruise_speed, type.max_speed}
           /\ assigned_bearing_deg \in {0, 90, 270}
           /\ ads_b = 0
           /\ mode_a = VFR_SQUAWK
    /\ NewRadarWindow
    /\ EmptyRadarDisplay

SpecStatus ==
    /\ InitStatus
    /\ [][CallUpdateFlightProfile]_vars
    /\ WF_vars(CallUpdateFlightProfile)

\* C22: vertical_status is "Level" exactly when the altitude is within 50
\* feet of the assigned altitude, speed_status is "Cruise" exactly when the
\* velocity is within 5 knots of the assigned speed, heading_status is
\* "Steady" exactly when the shortest bearing delta is at most 1 degree;
\* otherwise the status names the side the target is on.
C22_DerivedStatus ==
    /\ (vertical_status = "Level") <=> (Abs(assigned_altitude - mode_c) < 50)
    /\ (vertical_status = "Climbing") <=> (assigned_altitude - mode_c >= 50)
    /\ (vertical_status = "Descending") <=> (mode_c - assigned_altitude >= 50)
    /\ (speed_status = "Cruise") <=> (Abs(assigned_speed - velocity) < 500)
    /\ (speed_status = "Accelerating") <=> (assigned_speed - velocity >= 500)
    /\ (speed_status = "Slowing") <=> (velocity - assigned_speed >= 500)
    /\ (heading_status = "Steady") <=>
           (ShortestDelta(bearing_deg, assigned_bearing_deg) <= 1)
    /\ (heading_status = "Turning") <=>
           (ShortestDelta(bearing_deg, assigned_bearing_deg) > 1)

\* one degree short of the assigned bearing after some updates, while still
\* climbing and not yet at the assigned speed
C22_Witness ==
    /\ ShortestDelta(bearing_deg, assigned_bearing_deg) = 1
    /\ heading_status = "Steady"
    /\ bearing_deg \notin {0, 180}
    /\ vertical_status = "Climbing"
    /\ speed_status # "Cruise"

(***************************************************************************)
(* Aircraft.update_squawk: the squawk is a string, modelled as the         *)
(* sequence of its decimal digits.  The method ignores its argument.       *)
(***************************************************************************)
RECURSIVE int(_)
\* int("d1...dn")
int(digits) ==
    IF digits = <<>> THEN 0
    ELSE 10 * int(SubSeq(digits, 1, Len(digits) - 1)) + digits[Len(digits)]

RECURSIVE str(_)
\* str(n) for n >= 0: no leading zeros, "0" for 0
str(n) == IF n < 10 THEN <<n>> ELSE Append(str(n \div 10), n % 10)

RECURSIVE zfill(_, _)
\* s.zfill(width): zeros on the left up to the width, never a cut
zfill(digits, width) ==
    IF Len(digits) >= width THEN digits ELSE zfill(<<0>> \o digits, width)

update_squawk(squawk) == zfill(str(int(squawk) + 1), 4)

\* the squawk value up to which update_squawk is called
MaxSquawk == 10002

SquawkCodes == {<<0, 0, 0, 0>>, VFR_SQUAWK, <<7, 7, 7, 7>>, <<9, 9, 9, 0>>}

InitSquawk ==
    /\ aircraft_type = LightType
    /\ bearing_deg = 0
    /\ velocity = LightType.cruise_speed
    /\ mode_c = 5000
    /\ assigned_altitude = 5000
    /\ assigned_speed = LightType.cruise_speed
    /\ assigned_bearing_deg = 0
    /\ ads_b = 0
    /\ mode_a \in SquawkCodes
    /\ NewRadarWindow
    /\ EmptyRadarDisplay

CallUpdateSquawk ==
    /\ int(mode_a) < MaxSquawk
    /\ mode_a' = update_squawk(mode_a)
    /\ UNCHANGED <<aircraft_type, velocity, mode_c, bearing_deg, assigned_speed,
                   assigned_altitude, assigned_bearing_deg, ads_b>>
    /\ UNCHANGED <<qt_vars, radar_vars>>

SpecSquawk == InitSquawk /\ [][CallUpdateSquawk]_vars

\* C23: starting from a 4-digit decimal string, after any number of
\* update_squawk calls mode_a is still a string of exactly 4 digits.
C23_SquawkFourDigits ==
    /\ Len(mode_a) = 4
    /\ \A i \in 1..Len(mode_a) : mode_a[i] \in 0..9

(***************************************************************************)
(* aircraft.py (and the same class in main.py): an aircraft of the radar   *)
(* display with its altitude and its AircraftModel.  One integer unit is   *)
(* 1/8 degree for the degree values of update_heading and the turn_rate,   *)
(* and 0.5 for the altitude and the climb_rate.                            *)
(***************************************************************************)
\* AircraftModel(climb_rate=7.5, turn_rate=3) and (climb_rate=30, turn_rate=2.5)
ModelC172 == [climb_rate |-> 15, turn_rate |-> 24]
ModelB737 == [climb_rate |-> 60, turn_rate |-> 20]

\* np.degrees and np.radians between the angle unit and the degree unit
degrees(angle) == angle * 2
radians(deg) == deg \div 2

FullCircleDeg == 360 * 8

\* Aircraft.update_heading(target_angle)
aircraft_update_heading(aircraft, target_angle) ==
    LET current_angle_deg == degrees(aircraft.angle)
        target_angle_deg == degrees(target_angle)
        wrapped == (target_angle_deg - current_angle_deg + FullCircleDeg)
                       % FullCircleDeg
        angle_diff == IF wrapped > FullCircleDeg \div 2
                      THEN wrapped - FullCircleDeg ELSE wrapped
        turn_rate == aircraft.aircraft_model.turn_rate
    IN  IF Abs(angle_diff) < turn_rate
        THEN [aircraft EXCEPT !.angle = target_angle]
        ELSE [aircraft EXCEPT
                !.angle = (@ + radians(IF angle_diff > 0 THEN turn_rate
                                       ELSE -turn_rate)) % TWO_PI]

\* Aircraft.update_altitude(target_altitude)
aircraft_update_altitude(aircraft, target_altitude) ==
    LET climb_rate == aircraft.aircraft_model.climb_rate
    IN  IF Abs(target_altitude - aircraft.altitude) < climb_rate
        THEN [aircraft EXCEPT !.altitude = target_altitude]
        ELSE [aircraft EXCEPT
                !.altitude = IF target_altitude > aircraft.altitude
                             THEN @ + climb_rate ELSE @ - climb_rate]

(***************************************************************************)
(* SpecArcade: the first aircraft of the list is commanded with heading    *)
(* and altitude targets while RadarDisplay.update moves the fleet.         *)
(***************************************************************************)
MaxArcadeTicks == 3

HeadingTargets == {-12, 5, 36, 1440, 1500}
ArcadeAltitudeTargets == {-60, 0, 20, 140, 200}

ArcadeFleets ==
    { <<[angle |-> 0, distance |-> 180000, speed |-> 120, landed |-> FALSE,
         altitude |-> 140, aircraft_model |-> ModelC172]>>,
      <<[angle |-> 1428, distance |-> 359995, speed |-> 600, landed |-> FALSE,
         altitude |-> 20, aircraft_model |-> ModelB737],
        [angle |-> 240, distance |-> 90000, speed |-> 480, landed |-> TRUE,
         altitude |-> 0, aircraft_model |-> ModelC172]>>,
      <<[angle |-> 720, distance |-> 359995, speed |-> 600, landed |-> TRUE,
         altitude |-> 20, aircraft_model |-> ModelB737],
        [angle |-> 36, distance |-> 270000, speed |-> 480, landed |-> FALSE,
         altitude |-> 140, aircraft_model |-> ModelC172]>> }

InitArcade ==
    /\ \E list \in ArcadeFleets : NewRadarDisplay(list)
    /\ ParkedAircraft
    /\ NewRadarWindow

CallUpdateHeading(target_angle) ==
    /\ aircraft_list' = [aircraft_list EXCEPT
                           ![1] = aircraft_update_heading(@, target_angle)]
    /\ UNCHANGED <<radar_sweep_angle, radar_returns, frames, ticks, calls>>
    /\ UNCHANGED <<aircraft_vars, qt_vars>>

CallArcadeUpdateAltitude(target_altitude) ==
    /\ aircraft_list' = [aircraft_list EXCEPT
                           ![1] = aircraft_update_altitude(@, target_altitude)]
    /\ UNCHANGED <<radar_sweep_angle, radar_returns, frames, ticks, calls>>
    /\ UNCHANGED <<aircraft_vars, qt_vars>>

HeadingCall == \E t \in HeadingTargets : CallUpdateHeading(t)
ArcadeAltitudeCall == \E t \in ArcadeAltitudeTargets : CallArcadeUpdateAltitude(t)
ArcadeUpdate == ticks < MaxArcadeTicks /\ RadarDisplay_update

NextArcade == HeadingCall \/ ArcadeAltitudeCall \/ ArcadeUpdate

SpecArcade == InitArcade /\ [][NextArcade]_vars

\* C24: from an altitude >= 0, after any sequence of update_altitude(target)
\* calls with any target the altitude is never below 0, and no call takes it
\* to the far side of its target.
C24_ArcadeAltitudeFloor ==
    /\ [](\A i \in DOMAIN aircraft_list : aircraft_list[i].altitude >= 0)
    /\ [][\A t \in ArcadeAltitudeTargets :
            CallArcadeUpdateAltitude(t) =>
               /\ aircraft_list[1].altitude <= t => aircraft_list'[1].altitude <= t
               /\ aircraft_list[1].altitude >= t => aircraft_list'[1].altitude >= t]_vars

\* C25: from an angle in [0, 2 pi), after any sequence of
\* update_heading(target_angle) calls with any target, the angle is in
\* [0, 2 pi).
C25_ArcadeHeadingNormalised ==
    \A i \in DOMAIN aircraft_list :
        aircraft_list[i].angle >= 0 /\ aircraft_list[i].angle < TWO_PI

\* C26: update_positions leaves an aircraft whose landed flag is true
\* unchanged in every field whatever its speed, and sets the distance of
\* every other aircraft to (distance + speed x KNOTS_TO_MILES_PER_FRAME)
\* mod MAX_DISTANCE_MILES, every other field unchanged.
C26_LandedFrozen ==
    [][ArcadeUpdate =>
         /\ DOMAIN aircraft_list' = DOMAIN aircraft_list
         /\ \A i \in DOMAIN aircraft_list :
              LET before == aircraft_list[i]
                  after == aircraft_list'[i]
              IN  /\ before.landed => after = before
                  /\ ~before.landed =>
                        /\ after.distance =
                             (before.distance + before.speed \div 60) % 360000
                        /\ after = [before EXCEPT !.distance = after.distance]]_vars

\* after an update: a landed aircraft with a speed beside one that wrapped
\* at MAX_DISTANCE_MILES
C26_Witness ==
    /\ ticks >= 1
    /\ \E i \in DOMAIN aircraft_list :
          aircraft_list[i].landed /\ aircraft_list[i].speed > 0
    /\ \E i \in DOMAIN aircraft_list :
          ~aircraft_list[i].landed /\ aircraft_list[i].distance < 100

\* C27: with 0 <= assigned_speed <= max_speed, repeated update_flight_profile
\* calls eventually bring speed_status to "Cruise", and it remains "Cruise"
\* on every later tick.
C27_SpeedStatusSettles == <>[](speed_status = "Cruise")

\* the blips the last 120 frames added for the aircraft
PaintedThisRotation(aircraft) ==
    {j \in DOMAIN radar_returns :
        /\ radar_returns[j].angle = aircraft.angle
        /\ radar_returns[j].age <= FULL_ROTATION_TIME_SECONDS * FPS}

\* C28: for an aircraft with a fixed angle in [0, 2 pi) and within display
\* range, during every 120 consecutive frames at least one and at most two
\* frames add a blip for that aircraft.
C28_PaintedEachRotation ==
    \A i \in DOMAIN aircraft_list :
        LET painted == PaintedThisRotation(aircraft_list[i])
        IN  /\ Cardinality(painted) <= 2
            /\ (/\ OnDisplay(aircraft_list[i])
                /\ ticks = 0
                /\ frames >= FULL_ROTATION_TIME_SECONDS * FPS)
               => Cardinality(painted) >= 1

\* C29: with N aircraft the ledger never holds more than N x 600 blips:
\* each frame adds at most one blip per aircraft, and every blip is removed
\* within 600 decay calls.
C29_LedgerBounded ==
    /\ [](/\ Len(radar_returns) <= Len(aircraft_list) * 600
          /\ Cardinality({j \in DOMAIN radar_returns : radar_returns[j].age = 1})
                <= Len(aircraft_list)
          /\ \A j \in DOMAIN radar_returns : radar_returns[j].age < 600)
    /\ [][OnDraw =>
            /\ Len(radar_returns') <= Len(radar_returns) + Len(aircraft_list)
            /\ \A i \in DOMAIN aircraft_list :
                  Cardinality(FreshReturns(radar_returns', aircraft_list[i])) <= 1]_vars

\* five rotations on, two aircraft, the oldest blip about to be removed
C29_Witness ==
    /\ frames > 600
    /\ Len(aircraft_list) = 2
    /\ Len(radar_returns) >= 5
    /\ \E j \in DOMAIN radar_returns : radar_returns[j].age = 599

\* C30: the ledger holds the blips in creation order, so with
\* non-decreasing opacity from first to last; every stored opacity is in
\* (0, 1], and no blip with opacity <= 0 remains after update().
C30_LedgerOrdered ==
    /\ \A j, k \in DOMAIN radar_returns :
          j < k => /\ radar_returns[j].age >= radar_returns[k].age
                   /\ radar_returns[j].opacity <= radar_returns[k].opacity
    /\ \A j \in DOMAIN radar_returns :
          /\ radar_returns[j].opacity > 0
          /\ radar_returns[j].opacity <= FULL_OPACITY

\* the oldest blip, at its last positive opacity, leads younger ones, after
\* older blips have been removed
C30_Witness ==
    /\ frames > 600
    /\ Len(radar_returns) >= 3
    /\ radar_returns[1].opacity = FADE
    /\ radar_returns[Len(radar_returns)].opacity > radar_returns[1].opacity

====
